---- MODULE Spec2Model ----
(***************************************************************************)
(* SFPLiberate BLE proxy: the ESPHome ConnectionManager                    *)
(* (backend/app/services/esphome/connection_manager.py) and the WebSocket  *)
(* session handler BLEProxyHandler (backend/app/api/v1/ble_proxy.py).      *)
(*                                                                         *)
(* Every coroutine is cut at its await points: one action runs the code    *)
(* from one suspension to the next, as the asyncio event loop does.        *)
(***************************************************************************)
EXTENDS Integers, Sequences, FiniteSets, TLC

(***************************************************************************)
(* Bounds and program constants                                            *)
(***************************************************************************)
\* Largest latency (seconds) the transport takes to answer a connect.
MaxLatency == 31

\* Largest number of on_notification closures registered with the
\* transport: connect_device calls with a callback stop there.
MaxSubscriptions == 2

\* Settings.esphome_connection_timeout
esphome_connection_timeout == 30

\* client_id values: one per WebSocket client.
Sessions == {"s1", "s2"}

\* The task that runs disconnect_all at process shutdown.
ShutdownTask == "shutdown"

Tasks == Sessions \cup {ShutdownTask}

\* mac_address arguments as callers pass them (no normalisation is applied).
MacInputs == {"aa", "BB"}

\* address values the transport reports a notification from.
Addresses == {"AA", "BB"}

\* notification_callback arguments: None or a callable.
None == "None"
Callable == "callable"
CallbackArgs == {None, Callable}

\* (mac_address, notification_callback) arguments of the connect_device
\* calls that client s makes: the first client connects to one device
\* with a callback and to the other without, the second to one device
\* without.
ConnectArgs(s) ==
    IF s = "s1"
    THEN {<<"aa", Callable>>, <<"BB", None>>}
    ELSE {<<"BB", None>>}

\* str.upper() on the addresses of the model.
Upper(m) == IF m = "aa" THEN "AA" ELSE m

\* write_char_uuid argument of connect_device.
WriteCharUuid == "FFE1"

\* characteristic_uuid arguments of write_characteristic: the recorded
\* characteristic in lower case, and another characteristic.
WriteUuids == {"ffe1", "FFE2"}

\* str.upper() on the UUIDs of the model.
UpperUuid(u) == IF u = "ffe1" THEN "FFE1" ELSE u

(***************************************************************************)
(* State                                                                   *)
(***************************************************************************)
VARIABLES
    connections,  \* ConnectionManager.connections: dict in insertion order,
                  \* a sequence of ActiveConnection records with their key
    task,         \* per task: the manager coroutine it is suspended in
    ret,          \* the manager call that ended in this step, and how
    snap,         \* disconnect_all: keys of the snapshot not yet visited
    tlive,        \* transport: devices it holds connected, per client_id
    tsubs,        \* transport: on_notification closures registered with it,
                  \* in the order of their registration
    notif,        \* the notification the transport produced in this step
    hpc,          \* BLEProxyHandler.handle: the await it is suspended at
    running,      \* BLEProxyHandler.running
    sock,         \* the client's end of the WebSocket: open or closed
    frame,        \* the frame being handled and what handling it did so far
    pending,      \* the event websocket.send_json is sending, and what follows
    bleManager,   \* self.ble_manager, as the handler sees it
    hlog,         \* how handle() ended
    nsend,        \* notification_callback: the send_json it is suspended in
    wcall,        \* a write frame on its way from handle_write to the transport
    vcall,        \* a call of validate_mac_address: its input and its result
    dcall         \* a discovery: the sightings, the merged list, the event

mvars == <<connections, task, ret, snap, tlive, tsubs, notif>>

hvars == <<hpc, running, sock, frame, pending, bleManager, hlog, nsend>>

pvars == <<wcall, vcall, dcall>>

vars == <<connections, task, ret, snap, tlive, tsubs, notif,
          hpc, running, sock, frame, pending, bleManager, hlog, nsend,
          wcall, vcall, dcall>>

(***************************************************************************)
(* Python dict, in insertion order                                         *)
(***************************************************************************)
HasKey(conns, k) == \E i \in 1..Len(conns) : conns[i].client_id = k

IndexOf(conns, k) == CHOOSE i \in 1..Len(conns) : conns[i].client_id = k

DictGet(conns, k) == conns[IndexOf(conns, k)]

DictSet(conns, k, v) ==
    IF HasKey(conns, k)
    THEN [conns EXCEPT ![IndexOf(conns, k)] = v]
    ELSE Append(conns, v)

\* Mutant: the whole dict is cleared.
DictDel_clear(conns, k) == <<>>

DictDel(conns, k) == SelectSeq(conns, LAMBDA e : e.client_id # k)

DictKeys(conns) == [i \in 1..Len(conns) |-> conns[i].client_id]

\* ActiveConnection(...), stored under client_id
ActiveConnection(cid, mac, cb) ==
    [client_id |-> cid, mac_address |-> mac, notification_callback |-> cb,
     write_char_uuid |-> WriteCharUuid]

\* connection.notification_callback = None, on the object the dict holds
ClearCallback(conns, k) ==
    IF DictGet(conns, k).notification_callback # None
    THEN [conns EXCEPT ![IndexOf(conns, k)].notification_callback = None]
    ELSE conns

(***************************************************************************)
(* Task records                                                            *)
(***************************************************************************)
\* op     the manager method running; pc: the await it is suspended at
\* cid    client_id argument; mac, cb: connect_device arguments
\* old    mac_address of the connection a disconnect_device holds
\* had    an entry for cid existed when the call started
\* tdisc  the call issued a transport disconnect
\* tconn  the call issued a transport connect
\* opened the transport connect of the call succeeded
\* twrite the call issued a transport write
\* tout   how the transport disconnect of the call ended
\* lat    the latency of the transport's answer to the connect of the call
\* uuid   characteristic_uuid argument of write_characteristic
\* warned the call logged the characteristic mismatch warning
\* wout   how the transport write of the call ended
\* res    how the call ended
IdleTask ==
    [op |-> "none", pc |-> "idle", cid |-> "-", mac |-> "-", cb |-> None,
     old |-> "-", had |-> FALSE, tdisc |-> FALSE, tconn |-> FALSE,
     opened |-> FALSE, twrite |-> FALSE, tout |-> "-", lat |-> -1,
     uuid |-> "-", warned |-> FALSE, wout |-> "-", res |-> "-"]

\* addr    the address the notification comes from
\* invoked the client_ids whose callback it invoked
\* calls   per client_id, how many times it invoked the callback
\* cbout   how the callback ended: it returned or it raised
\* propagated  an exception of the callback left on_notification
NoNotif ==
    [addr |-> "-", invoked |-> {}, calls |-> [s \in Sessions |-> 0],
     cbout |-> "-", propagated |-> FALSE]

\* kind   the frame received; mgr: manager operations invoked for it
\* tried  events handed to send_json for it; sent: those that were written
\* out    how the manager operation invoked for it ended
\* late   self.running was already False when the frame was received
NoFrame ==
    [kind |-> "-", mgr |-> 0, tried |-> <<>>, sent |-> <<>>, out |-> "-",
     late |-> FALSE]

NoPending == [event |-> "-", then |-> "-"]

\* No write frame, no validator call and no discovery are under way.
NoCall == [pc |-> "none"]

\* The state after construction of the manager and of the handler.
ProgramInit ==
    /\ connections = <<>>
    /\ task = [t \in Tasks |-> IdleTask]
    /\ ret = IdleTask
    /\ snap = <<>>
    /\ tlive = [s \in Sessions |-> {}]
    /\ tsubs = <<>>
    /\ notif = NoNotif
    /\ hpc = "init"
    /\ running = FALSE
    /\ sock = "open"
    /\ frame = NoFrame
    /\ pending = NoPending
    /\ bleManager = [available |-> FALSE, is_connected |-> FALSE,
                     subscribed |-> FALSE]
    /\ hlog = [held |-> FALSE, tried |-> FALSE, out |-> "-", raised |-> FALSE,
               nfail |-> FALSE, closed_at |-> "-"]
    /\ nsend = "idle"

Init ==
    /\ ProgramInit
    /\ wcall = NoCall
    /\ vcall = NoCall
    /\ dcall = NoCall

\* The call of task t ends with res: the coroutine returns or raises.
Return(t, rec, res) ==
    /\ task' = [task EXCEPT ![t] = IdleTask]
    /\ ret' = [rec EXCEPT !.pc = "done", !.res = res]

(***************************************************************************)
(* Transport (aioesphomeapi APIClient), as the manager sees it             *)
(***************************************************************************)
\* Outcomes of an awaited transport call: it returns or it raises.
TransportOutcomes == {"ok", "err"}

\* Latencies of the transport's answer to a connect, around the timeout.
Latencies == {0, esphome_connection_timeout - 1, esphome_connection_timeout, MaxLatency}

\* asyncio.wait_for(client.bluetooth_device_connect(mac), timeout=...):
\* the transport answers res after lat seconds. An answer that arrives at
\* the very instant the timer fires may win or lose against it.
WaitFor(lat, res) ==
    IF lat < esphome_connection_timeout THEN {res}
    ELSE IF lat > esphome_connection_timeout THEN {"TimeoutError"}
    ELSE {res, "TimeoutError"}

\* bluetooth_device_disconnect(mac) for client_id cid ended with out.
TransportDisconnect(live, cid, mac, out) ==
    IF out = "ok" THEN [live EXCEPT ![cid] = @ \ {Upper(mac)}] ELSE live

\* bluetooth_device_connect(mac) for client_id cid succeeded.
TransportConnect(live, cid, mac) == [live EXCEPT ![cid] = @ \cup {Upper(mac)}]

\* The closure on_notification that _subscribe_notifications hands to the
\* transport: it captures mac_address and the caller's callback.
OnNotification(cid, mac) == [cid |-> cid, mac_address |-> mac]

\* on_notification(address, ...): the callback is called iff the addresses
\* agree, whatever the registry holds.
ClosureFires(c, address) == Upper(address) = Upper(c.mac_address)

(***************************************************************************)
(* ConnectionManager.connect_device                                        *)
(***************************************************************************)
\* Mutant: the existing connection is not looked for.
ExistingConnection_skipped(conns, cid) == FALSE

\* if client_id in self.connections:
ExistingConnection(conns, cid) == HasKey(conns, cid)

\* Mutant: the timeout is reported like every other failure.
ConnectFailure_generic(exc) == "RuntimeError: Connection failed"

\* except asyncio.TimeoutError / except Exception
ConnectFailure(exc) ==
    IF exc = "TimeoutError"
    THEN "RuntimeError: Connection timeout"
    ELSE "RuntimeError: Connection failed"

\* The call runs to its first await: the disconnect of the existing
\* connection, or the transport connect.
ConnectDevice(s, mac, cb) ==
    /\ task[s].pc = "idle"
    /\ cb = None \/ Len(tsubs) < MaxSubscriptions
    /\ LET rec == [IdleTask EXCEPT !.op = "connect", !.cid = s, !.mac = mac,
                                   !.cb = cb, !.had = HasKey(connections, s)]
       IN  IF ExistingConnection(connections, s)
           THEN /\ connections' = ClearCallback(connections, s)
                /\ task' = [task EXCEPT ![s] =
                       [rec EXCEPT !.pc = "pre_disc_wait", !.tdisc = TRUE,
                                   !.old = DictGet(connections, s).mac_address]]
           ELSE /\ task' = [task EXCEPT ![s] =
                       [rec EXCEPT !.pc = "conn_wait", !.tconn = TRUE]]
                /\ UNCHANGED connections
    /\ notif' = NoNotif
    /\ UNCHANGED <<hvars, pvars>>
    /\ ret' = IdleTask
    /\ UNCHANGED <<snap, tlive, tsubs>>

\* Mutant: the entry is deleted in the try block, after the transport call.
DisconnectFinally_inTry(conns, cid, out) ==
    IF out = "ok" THEN DictDel(conns, cid) ELSE conns

\* finally: del self.connections[client_id]
DisconnectFinally(conns, cid, out) == DictDel(conns, cid)

\* disconnect_device resumes inside connect_device; a KeyError of its del
\* leaves connect_device, else the transport connect is issued.
ConnectAfterDisconnect(s) ==
    /\ task[s].pc = "pre_disc_wait"
    /\ \E out \in TransportOutcomes :
        /\ tlive' = TransportDisconnect(tlive, s, task[s].old, out)
        /\ IF HasKey(connections, s)
           THEN /\ connections' = DisconnectFinally(connections, s, out)
                /\ task' = [task EXCEPT ![s].pc = "conn_wait", ![s].tconn = TRUE]
                /\ ret' = IdleTask
           ELSE /\ Return(s, task[s], "KeyError")
                /\ UNCHANGED connections
    /\ notif' = NoNotif
    /\ UNCHANGED <<hvars, pvars>>
    /\ UNCHANGED <<snap, tsubs>>

\* self.connections[client_id] = ActiveConnection(...)
StoreConnection(conns, cid, mac, cb) ==
    DictSet(conns, cid, ActiveConnection(cid, mac, cb))

\* The transport connect ends: timeout, error, or connected; then the
\* subscription is awaited if a callback was given, else the entry stored.
ConnectResume(s) ==
    /\ task[s].pc = "conn_wait"
    /\ \E lat \in Latencies, res \in TransportOutcomes :
        \E out \in WaitFor(lat, res) :
        IF out # "ok"
        THEN /\ Return(s, [task[s] EXCEPT !.lat = lat], ConnectFailure(out))
             /\ UNCHANGED <<connections, tlive>>
        ELSE /\ tlive' = TransportConnect(tlive, s, task[s].mac)
             /\ IF task[s].cb # None
                THEN /\ task' = [task EXCEPT ![s].pc = "sub_wait",
                                             ![s].opened = TRUE]
                     /\ ret' = IdleTask
                     /\ UNCHANGED connections
                ELSE /\ connections' =
                          StoreConnection(connections, s, task[s].mac, task[s].cb)
                     /\ Return(s, [task[s] EXCEPT !.opened = TRUE, !.lat = lat],
                               "ok")
    /\ notif' = NoNotif
    /\ UNCHANGED <<hvars, pvars>>
    /\ UNCHANGED <<snap, tsubs>>

\* _subscribe_notifications resumes: subscribed and the entry is stored, or
\* RuntimeError("Subscription failed"), re-raised as "Connection failed".
SubscribeResume(s) ==
    /\ task[s].pc = "sub_wait"
    /\ \E out \in TransportOutcomes :
        IF out = "ok"
        THEN /\ tsubs' = Append(tsubs, OnNotification(s, task[s].mac))
             /\ connections' =
                  StoreConnection(connections, s, task[s].mac, task[s].cb)
             /\ Return(s, task[s], "ok")
        ELSE /\ Return(s, task[s], ConnectFailure("RuntimeError"))
             /\ UNCHANGED <<connections, tsubs>>
    /\ notif' = NoNotif
    /\ UNCHANGED <<hvars, pvars>>
    /\ UNCHANGED <<snap, tlive>>

(***************************************************************************)
(* ConnectionManager.disconnect_device                                     *)
(***************************************************************************)
\* if client_id not in self.connections: return
NoActiveConnection(conns, cid) == ~HasKey(conns, cid)

DisconnectDevice(s) ==
    /\ task[s].pc = "idle"
    /\ LET rec == [IdleTask EXCEPT !.op = "disconnect", !.cid = s,
                                   !.had = HasKey(connections, s)]
       IN  IF NoActiveConnection(connections, s)
           THEN /\ Return(s, rec, "ok")
                /\ UNCHANGED connections
           ELSE /\ connections' = ClearCallback(connections, s)
                /\ task' = [task EXCEPT ![s] =
                       [rec EXCEPT !.pc = "disc_wait", !.tdisc = TRUE,
                                   !.old = DictGet(connections, s).mac_address]]
                /\ ret' = IdleTask
    /\ notif' = NoNotif
    /\ UNCHANGED <<hvars, pvars>>
    /\ UNCHANGED <<snap, tlive, tsubs>>

\* except Exception: logged; finally: del (KeyError if the key is gone)
DisconnectResume(s) ==
    /\ task[s].pc = "disc_wait"
    /\ \E out \in TransportOutcomes :
        /\ tlive' = TransportDisconnect(tlive, s, task[s].old, out)
        /\ IF HasKey(connections, s)
           THEN /\ connections' = DisconnectFinally(connections, s, out)
                /\ Return(s, [task[s] EXCEPT !.tout = out], "ok")
           ELSE /\ Return(s, [task[s] EXCEPT !.tout = out], "KeyError")
                /\ UNCHANGED connections
    /\ notif' = NoNotif
    /\ UNCHANGED <<hvars, pvars>>
    /\ UNCHANGED <<snap, tsubs>>

(***************************************************************************)
(* ConnectionManager.write_characteristic                                  *)
(***************************************************************************)
\* Mutant: the check asks whether the registry is empty.
NotConnected_emptyRegistry(conns, cid) == conns = <<>>

\* if client_id not in self.connections: raise ValueError
NotConnected(conns, cid) == ~HasKey(conns, cid)

\* Mutant: the characteristics are compared as they are written.
UuidMismatch_caseSensitive(uuid, connection) ==
    uuid # connection.write_char_uuid

\* if characteristic_uuid.upper() != connection.write_char_uuid.upper():
UuidMismatch(uuid, connection) ==
    UpperUuid(uuid) # UpperUuid(connection.write_char_uuid)

\* Mutant: the except clause drops the connection before it raises.
WriteFailure_dropsConnection(conns, cid) == DictDel(conns, cid)

\* except Exception as e: raise RuntimeError(f"Write failed: {e}")
WriteFailure(conns, cid) == conns

\* The call runs to its await: the not-connected error, or the warning of
\* a characteristic mismatch and the transport write.
WriteCharacteristic(s, uuid) ==
    /\ task[s].pc = "idle"
    /\ LET rec == [IdleTask EXCEPT !.op = "write", !.cid = s, !.uuid = uuid,
                                   !.had = HasKey(connections, s)]
       IN  IF NotConnected(connections, s)
           THEN /\ Return(s, rec, "ValueError: No active connection")
           ELSE IF ~HasKey(connections, s)
           THEN \* connection = self.connections[client_id]
                /\ Return(s, rec, "KeyError")
           ELSE /\ task' = [task EXCEPT ![s] =
                       [rec EXCEPT !.pc = "write_wait", !.twrite = TRUE,
                                   !.mac = DictGet(connections, s).mac_address,
                                   !.warned =
                                       UuidMismatch(uuid,
                                                    DictGet(connections, s))]]
                /\ ret' = IdleTask
    /\ notif' = NoNotif
    /\ UNCHANGED <<hvars, pvars>>
    /\ UNCHANGED <<connections, snap, tlive, tsubs>>

\* The transport write returns, or raises and the call raises
\* RuntimeError("Write failed: ...") with the cause.
WriteResume(s) ==
    /\ task[s].pc = "write_wait"
    /\ \E out \in TransportOutcomes :
        /\ Return(s, [task[s] EXCEPT !.wout = out],
                  IF out = "ok" THEN "ok" ELSE "RuntimeError: Write failed")
        /\ connections' = IF out = "ok" THEN connections
                          ELSE WriteFailure(connections, s)
    /\ notif' = NoNotif
    /\ UNCHANGED <<hvars, pvars>>
    /\ UNCHANGED <<snap, tlive, tsubs>>

(***************************************************************************)
(* ConnectionManager.disconnect_all                                        *)
(***************************************************************************)
\* disconnect_device returns at once, without awaiting, for a key that is
\* no longer in the dict: the for loop goes on to the next key.
RECURSIVE SkipMissing(_, _)
SkipMissing(keys, conns) ==
    IF keys = <<>> \/ HasKey(conns, Head(keys))
    THEN keys
    ELSE SkipMissing(Tail(keys), conns)

\* The for loop over the snapshot, from its top to the next await.
AllLoop(keys, conns) ==
    LET rest == SkipMissing(keys, conns)
        rec  == [IdleTask EXCEPT !.op = "disconnect_all"]
    IN  IF rest = <<>>
        THEN /\ Return(ShutdownTask, rec, "ok")
             /\ connections' = conns
             /\ snap' = <<>>
        ELSE /\ connections' = ClearCallback(conns, Head(rest))
             /\ task' = [task EXCEPT ![ShutdownTask] =
                    [rec EXCEPT !.pc = "all_wait", !.cid = Head(rest),
                                !.tdisc = TRUE, !.had = TRUE,
                                !.old = DictGet(conns, Head(rest)).mac_address]]
             /\ snap' = Tail(rest)
             /\ ret' = IdleTask

\* for client_id in list(self.connections.keys()):
DisconnectAll ==
    /\ task[ShutdownTask].pc = "idle"
    /\ AllLoop(DictKeys(connections), connections)
    /\ notif' = NoNotif
    /\ UNCHANGED <<hvars, pvars>>
    /\ UNCHANGED <<tlive, tsubs>>

DisconnectAllResume ==
    /\ task[ShutdownTask].pc = "all_wait"
    /\ LET cid == task[ShutdownTask].cid IN
       \E out \in TransportOutcomes :
        /\ tlive' = TransportDisconnect(tlive, cid, task[ShutdownTask].old, out)
        /\ IF HasKey(connections, cid)
           THEN AllLoop(snap, DisconnectFinally(connections, cid, out))
           ELSE /\ Return(ShutdownTask, task[ShutdownTask], "KeyError")
                /\ snap' = <<>>
                /\ UNCHANGED connections
    /\ notif' = NoNotif
    /\ UNCHANGED <<hvars, pvars>>
    /\ UNCHANGED tsubs

(***************************************************************************)
(* Transport event stream                                                  *)
(***************************************************************************)
\* Outcomes of callback(characteristic_uuid, data).
CallbackOutcomes == {"ok", "raise"}

\* except Exception as e: logger.error(...)
CallbackPropagates(cbout) == FALSE

\* The transport calls every registered on_notification with address; a
\* closure whose address matches calls the callback it was created with.
Notify(address) ==
    /\ tsubs # <<>>
    /\ LET fired == SelectSeq(tsubs, LAMBDA c : ClosureFires(c, address)) IN
       \E cbout \in IF fired = <<>> THEN {"-"} ELSE CallbackOutcomes :
       notif' = [addr |-> address,
                 invoked |-> {fired[i].cid : i \in 1..Len(fired)},
                 calls |-> [s \in Sessions |->
                     Cardinality({i \in 1..Len(fired) : fired[i].cid = s})],
                 cbout |-> cbout,
                 propagated |-> CallbackPropagates(cbout)]
    /\ ret' = IdleTask
    /\ UNCHANGED <<connections, task, snap, tlive, tsubs>>
    /\ UNCHANGED <<hvars, pvars>>

Next ==
    \/ \E s \in Sessions : \E a \in ConnectArgs(s) : ConnectDevice(s, a[1], a[2])
    \/ \E s \in Sessions : ConnectAfterDisconnect(s)
    \/ \E s \in Sessions : ConnectResume(s)
    \/ \E s \in Sessions : SubscribeResume(s)
    \/ \E s \in Sessions : DisconnectDevice(s)
    \/ \E s \in Sessions : DisconnectResume(s)
    \/ \E s \in Sessions : \E u \in WriteUuids : WriteCharacteristic(s, u)
    \/ \E s \in Sessions : WriteResume(s)
    \/ DisconnectAll
    \/ DisconnectAllResume
    \/ \E a \in Addresses : Notify(a)

Spec == Init /\ [][Next]_vars

(***************************************************************************)
(* BLEProxyHandler: one WebSocket session                                  *)
(***************************************************************************)
\* Frames whose decoding fails: json.loads raises; the JSON value has no
\* .get; the type tag is none of BLEMessageType; the message model rejects
\* the fields.
BadFrames == {"malformed", "nonobject", "unknown", "invalid"}

\* Frames that decode to a command.
Commands ==
    {"connect", "disconnect", "write", "subscribe", "unsubscribe", "discover"}

\* Write frames whose data field base64.b64decode refuses.
BadPayloads == {"write_badpayload"}

Frames == BadFrames \cup Commands \cup BadPayloads

\* websocket.send_json on an open socket returns or raises; on a closed one
\* it raises.
SendOutcomes(sk) == IF sk = "open" THEN {"ok", "err"} ELSE {"err"}

\* The ble_manager operations, as the registry of the specification
\* describes them: write, subscribe and unsubscribe need a connection.
ManagerOutcomes(op, connected) ==
    IF op \in {"write", "subscribe", "unsubscribe"} /\ ~connected
    THEN {"err"}
    ELSE {"ok", "err"}

\* ble_manager.is_connected after operation op ended with out.
ManagerConnected(op, out, connected) ==
    CASE op = "connect"    -> out = "ok"
      [] op = "disconnect" -> FALSE
      [] OTHER             -> connected

\* Whether the manager holds the notification callback of the session
\* after operation op ended with out: a subscribe that succeeded registers
\* it; an unsubscribe that succeeded, a disconnect and a new connect drop it.
ManagerSubscribed(op, out, subscribed) ==
    CASE op = "subscribe"   -> subscribed \/ out = "ok"
      [] op = "unsubscribe" -> subscribed /\ out # "ok"
      [] op = "disconnect"  -> FALSE
      [] op = "connect"     -> FALSE
      [] OTHER              -> subscribed

\* Mutant: a frame of unknown type falls into the last branch of the chain.
HandleMessage_noElse(f) ==
    IF f \in {"malformed", "nonobject", "invalid"} \cup BadPayloads
    THEN [kind |-> "send", event |-> "error"]
    ELSE [kind |-> "mgr", event |-> "-"]

\* handle_message up to its first await, with the except clauses of
\* handle_message, of handle and of handle_write (b64decode raises before
\* the manager is called): an error event is sent, or the manager
\* operation of the command is awaited.
HandleMessage(f) ==
    IF f \in BadFrames \cup BadPayloads
    THEN [kind |-> "send", event |-> "error"]
    ELSE [kind |-> "mgr", event |-> "-"]

\* The event a handle_* method sends after its manager operation.
ResponseEvent(op, out) ==
    IF out # "ok" THEN "error"
    ELSE CASE op = "connect"    -> "connected"
           [] op = "disconnect" -> "disconnected"
           [] op = "discover"   -> "discovered"
           [] OTHER             -> "status"

\* Mutant: the cleanup is skipped.
CleanupNeeded_never(mgr) == FALSE

\* if self.ble_manager and self.ble_manager.is_connected:
CleanupNeeded(mgr) == mgr.available /\ mgr.is_connected

\* Mutant: the exception of the cleanup disconnect leaves handle().
CleanupRaises_propagated(out) == out = "err"

\* except Exception as e: logger.error(...)
CleanupRaises(out) == FALSE

\* Mutant: the exception of send_json leaves send_message.
SendRaises_propagates(out) == out = "err"

\* send_message: except Exception as e: logger.error(...); running = False
SendRaises(out) == FALSE

\* Mutant: the return after the error of an unavailable backend is missing.
FirstEvent_noReturn(avail) ==
    [event |-> IF avail THEN "status" ELSE "error", then |-> "loop"]

\* handle() after accept: the status event and then the loop, or the error
\* event of except BLENotAvailableError and then return.
FirstEvent(avail) ==
    IF avail
    THEN [event |-> "status", then |-> "loop"]
    ELSE [event |-> "error", then |-> "return"]

\* send_message / send_error / send_status: send_json is awaited.
SendMessage(event, then) ==
    /\ hpc' = "send"
    /\ pending' = [event |-> event, then |-> then]

\* The finally clause of handle(), entered with self.running = r.
Finally(r) ==
    IF CleanupNeeded(bleManager)
    THEN /\ hpc' = "cleanup"
         /\ running' = r
         /\ hlog' = [hlog EXCEPT !.held = bleManager.available
                                            /\ bleManager.is_connected,
                                 !.tried = TRUE]
    ELSE /\ hpc' = "closed"
         /\ running' = FALSE
         /\ hlog' = [hlog EXCEPT !.held = bleManager.available
                                            /\ bleManager.is_connected]

\* websocket.accept(); get_ble_manager() returns the manager or raises
\* BLENotAvailableError; the first event is sent.
Accept(avail) ==
    /\ hpc = "init"
    /\ running' = TRUE
    /\ bleManager' = [available |-> avail, is_connected |-> FALSE,
                      subscribed |-> FALSE]
    /\ frame' = [NoFrame EXCEPT !.tried = <<FirstEvent(avail).event>>]
    /\ SendMessage(FirstEvent(avail).event, FirstEvent(avail).then)
    /\ UNCHANGED <<sock, hlog, nsend>>
    /\ UNCHANGED <<mvars, pvars>>

\* send_json ends; an exception clears self.running. Then the while test,
\* or the return after the error of an unavailable backend.
SendResume ==
    /\ hpc = "send"
    /\ \E out \in SendOutcomes(sock) :
        IF SendRaises(out) /\ pending.then = "try"
        THEN \* the except clause of the handle_* method sends an error
             /\ frame' = [frame EXCEPT !.tried = Append(@, "error")]
             /\ SendMessage("error", "loop")
             /\ UNCHANGED <<running, hlog>>
        ELSE LET r == IF out = "ok" THEN running ELSE FALSE IN
             /\ frame' = IF out = "ok"
                         THEN [frame EXCEPT !.sent = Append(@, pending.event)]
                         ELSE frame
             /\ pending' = NoPending
             /\ IF pending.then \in {"try", "loop"} /\ r
                THEN /\ hpc' = "recv"
                     /\ running' = r
                     /\ UNCHANGED hlog
                ELSE Finally(r)
    /\ UNCHANGED <<sock, bleManager, nsend>>
    /\ UNCHANGED <<mvars, pvars>>

\* receive_text returns a frame; handle_message runs to its first await.
ReceiveFrame(f) ==
    /\ hpc = "recv"
    /\ sock = "open"
    /\ LET d == HandleMessage(f) IN
       IF d.kind = "send"
       THEN /\ frame' = [NoFrame EXCEPT !.kind = f, !.tried = <<d.event>>,
                                        !.late = ~running]
            /\ SendMessage(d.event, "loop")
       ELSE /\ frame' = [NoFrame EXCEPT !.kind = f, !.mgr = 1,
                                        !.late = ~running]
            /\ hpc' = "mgr"
            /\ UNCHANGED pending
    /\ UNCHANGED <<running, sock, bleManager, hlog, nsend>>
    /\ UNCHANGED <<mvars, pvars>>

\* receive_text raises something other than WebSocketDisconnect:
\* except Exception sends an error event.
ReceiveException ==
    /\ hpc = "recv"
    /\ sock = "open"
    /\ frame' = [NoFrame EXCEPT !.kind = "exception", !.tried = <<"error">>,
                                !.late = ~running]
    /\ SendMessage("error", "loop")
    /\ UNCHANGED <<running, sock, bleManager, hlog, nsend>>
    /\ UNCHANGED <<mvars, pvars>>

\* receive_text raises WebSocketDisconnect: break.
ReceiveDisconnect ==
    /\ hpc = "recv"
    /\ sock = "closed"
    /\ frame' = NoFrame
    /\ Finally(running)
    /\ UNCHANGED <<sock, pending, bleManager, nsend>>
    /\ UNCHANGED <<mvars, pvars>>

\* The manager operation of a handle_* method ends; its response, or the
\* error event of its except clause, is sent.
ManagerResume ==
    /\ hpc = "mgr"
    /\ \E out \in ManagerOutcomes(frame.kind, bleManager.is_connected) :
        LET ev == ResponseEvent(frame.kind, out) IN
        /\ bleManager' = [bleManager EXCEPT
                             !.is_connected =
                                 ManagerConnected(frame.kind, out, @),
                             !.subscribed =
                                 ManagerSubscribed(frame.kind, out, @)]
        /\ frame' = [frame EXCEPT !.tried = Append(@, ev), !.out = out]
        /\ SendMessage(ev, IF out = "ok" THEN "try" ELSE "loop")
    /\ UNCHANGED <<running, sock, hlog, nsend>>
    /\ UNCHANGED <<mvars, pvars>>

\* The disconnect of the finally clause ends; then self.running = False.
CleanupResume ==
    /\ hpc = "cleanup"
    /\ \E out \in {"ok", "err"} :
        /\ hlog' = [hlog EXCEPT !.out = out, !.raised = CleanupRaises(out)]
        /\ bleManager' = [bleManager EXCEPT
                             !.is_connected =
                                 ManagerConnected("disconnect", out, @),
                             !.subscribed =
                                 ManagerSubscribed("disconnect", out, @)]
    /\ running' = FALSE
    /\ hpc' = "closed"
    /\ UNCHANGED <<sock, frame, pending, nsend>>
    /\ UNCHANGED <<mvars, pvars>>

\* The client goes away.
ClientClose ==
    /\ hpc \notin {"init", "closed"}
    /\ sock = "open"
    /\ sock' = "closed"
    /\ hlog' = [hlog EXCEPT !.closed_at = hpc]
    /\ UNCHANGED <<hpc, running, frame, pending, bleManager, nsend>>
    /\ UNCHANGED <<mvars, pvars>>

\* The manager invokes notification_callback of handle_subscribe while
\* handle() is suspended: the notification event is built and send_message
\* awaits send_json. One forwarding at a time is followed.
NotificationCallback ==
    /\ bleManager.subscribed
    /\ nsend = "idle"
    /\ nsend' = "sending"
    /\ UNCHANGED <<hpc, running, sock, frame, pending, bleManager, hlog>>
    /\ UNCHANGED <<mvars, pvars>>

\* send_json of the notification event ends; an exception clears
\* self.running, which handle() reads at its next while test.
NotificationSendResume ==
    /\ nsend = "sending"
    /\ nsend' = "idle"
    /\ \E out \in SendOutcomes(sock) :
        IF out = "ok"
        THEN UNCHANGED <<running, hlog>>
        ELSE /\ running' = FALSE
             /\ hlog' = [hlog EXCEPT !.nfail = TRUE]
    /\ UNCHANGED <<hpc, sock, frame, pending, bleManager>>
    /\ UNCHANGED <<mvars, pvars>>

HandlerNext ==
    \/ \E avail \in BOOLEAN : Accept(avail)
    \/ SendResume
    \/ \E f \in Frames : ReceiveFrame(f)
    \/ ReceiveException
    \/ ReceiveDisconnect
    \/ ManagerResume
    \/ CleanupResume
    \/ ClientClose
    \/ NotificationCallback
    \/ NotificationSendResume

HandlerSpec == Init /\ [][HandlerNext]_vars

\* The awaits of handle() end: a manager operation returns or raises, a
\* send_json returns or raises, the disconnect of the finally clause
\* returns or raises.
FairHandlerSpec ==
    /\ HandlerSpec
    /\ WF_vars(ManagerResume)
    /\ WF_vars(SendResume)
    /\ WF_vars(CleanupResume)

(***************************************************************************)
(* The payload of a write frame, from handle_write to the transport        *)
(***************************************************************************)
\* Most four-character groups in the data field of a write frame.
MaxGroups == 1

\* The base64 alphabet, in the order of its values.
B64Alphabet ==
    <<"A", "B", "C", "D", "E", "F", "G", "H", "I", "J", "K", "L", "M",
      "N", "O", "P", "Q", "R", "S", "T", "U", "V", "W", "X", "Y", "Z",
      "a", "b", "c", "d", "e", "f", "g", "h", "i", "j", "k", "l", "m",
      "n", "o", "p", "q", "r", "s", "t", "u", "v", "w", "x", "y", "z",
      "0", "1", "2", "3", "4", "5", "6", "7", "8", "9", "+", "/">>

B64Index(c) == (CHOOSE i \in 1..64 : B64Alphabet[i] = c) - 1

B64Char(v) == B64Alphabet[v + 1]

\* Characters of the data fields: the values 0, 3, 8, 16 and 63.
B64Chars == {"A", "D", "I", "Q", "/"}

\* Groups a data field starts with.
FullGroups == {<<"A", "Q", "I", "D">>, <<"/", "/", "/", "/">>}

\* The last group of a data field: complete, padded, absent or cut short.
LastGroups ==
    {<<a, b, c, d>> : a \in B64Chars, b \in B64Chars, c \in B64Chars,
                      d \in B64Chars}
    \cup {<<a, b, c, "=">> : a \in B64Chars, b \in B64Chars, c \in B64Chars}
    \cup {<<a, b, "=", "=">> : a \in B64Chars, b \in B64Chars}
    \cup {<<>>, <<"A">>, <<"A", "Q", "I">>}

RECURSIVE GroupSeqs(_)
GroupSeqs(n) ==
    IF n = 0 THEN {<<>>}
    ELSE LET r == GroupSeqs(n - 1) IN
         r \cup {q \o g : q \in r, g \in FullGroups}

\* The data fields of the write frames: at most n groups.
WriteData(n) == {q \o l : q \in GroupSeqs(n - 1), l \in LastGroups}

\* base64.b64decode(s), as binascii.a2b_base64 computes it without strict
\* mode: six bits per character are shifted into bytes; a pad character
\* ends the input once the group is filled; input that ends inside a group
\* raises binascii.Error.
RECURSIVE A2B(_, _, _, _, _, _)
A2B(data, i, quad_pos, pads, leftchar, out) ==
    IF i > Len(data) THEN [ok |-> quad_pos = 0, bytes |-> out]
    ELSE IF data[i] = "="
    THEN IF quad_pos >= 2 /\ quad_pos + pads + 1 >= 4
         THEN [ok |-> TRUE, bytes |-> out]
         ELSE A2B(data, i + 1, quad_pos,
                  IF quad_pos >= 2 THEN pads + 1 ELSE pads, leftchar, out)
    ELSE LET c == B64Index(data[i]) IN
         CASE quad_pos = 0 -> A2B(data, i + 1, 1, 0, c, out)
           [] quad_pos = 1 ->
                A2B(data, i + 1, 2, 0, c % 16,
                    Append(out, (leftchar * 4 + c \div 16) % 256))
           [] quad_pos = 2 ->
                A2B(data, i + 1, 3, 0, c % 4,
                    Append(out, (leftchar * 16 + c \div 4) % 256))
           [] OTHER ->
                A2B(data, i + 1, 0, 0, 0,
                    Append(out, (leftchar * 64 + c) % 256))

B64Decode(data) == A2B(data, 1, 0, 0, 0, <<>>)

\* base64.b64encode(data): three bytes give four characters, the last
\* group is padded.
RECURSIVE B64Encode(_)
B64Encode(b) ==
    IF Len(b) = 0 THEN <<>>
    ELSE IF Len(b) = 1
    THEN <<B64Char(b[1] \div 4), B64Char((b[1] % 4) * 16), "=", "=">>
    ELSE IF Len(b) = 2
    THEN <<B64Char(b[1] \div 4), B64Char((b[1] % 4) * 16 + b[2] \div 16),
           B64Char((b[2] % 16) * 4), "=">>
    ELSE <<B64Char(b[1] \div 4), B64Char((b[1] % 4) * 16 + b[2] \div 16),
           B64Char((b[2] % 16) * 4 + b[3] \div 64), B64Char(b[3] % 64)>>
         \o B64Encode(SubSeq(b, 4, Len(b)))

\* list(data) on a bytes object: the list of its byte values.
ListOfBytes(data) == [i \in 1..Len(data) |-> data[i]]

NoArgs == [data |-> <<>>, with_response |-> FALSE]

NoTx == [handle |-> -1, data |-> <<>>, response |-> FALSE]

\* Mutant: the write always asks for a response.
TransportWrite_alwaysResponse(data, with_response) ==
    [handle |-> 0, data |-> ListOfBytes(data), response |-> TRUE]

\* bluetooth_gatt_write(address=..., handle=0, data=list(data),
\*                      response=with_response)
TransportWrite(data, with_response) ==
    [handle |-> 0, data |-> ListOfBytes(data), response |-> with_response]

\* A write frame with data field d and withResponse w has been decoded.
WriteInit ==
    /\ ProgramInit
    /\ wcall \in {[pc |-> "frame", data |-> d, withResponse |-> w,
                    args |-> NoArgs, tx |-> NoTx] :
                      d \in WriteData(MaxGroups), w \in BOOLEAN}
    /\ vcall = NoCall
    /\ dcall = NoCall

\* handle_write: the data field is decoded and ble_manager.write is called
\* with the bytes and the flag, or the except clause sends an error.
HandleWrite ==
    /\ wcall.pc = "frame"
    /\ LET r == B64Decode(wcall.data) IN
       wcall' = IF r.ok
                THEN [wcall EXCEPT !.pc = "manager",
                                   !.args = [data |-> r.bytes,
                                             with_response |->
                                                 wcall.withResponse]]
                ELSE [wcall EXCEPT !.pc = "error"]
    /\ UNCHANGED <<mvars, hvars, vcall, dcall>>

\* The manager hands the arguments of its write to write_characteristic
\* of the session's connection, as they are.
ManagerWrite ==
    /\ wcall.pc = "manager"
    /\ wcall' = [wcall EXCEPT !.pc = "registry"]
    /\ UNCHANGED <<mvars, hvars, vcall, dcall>>

\* write_characteristic: the transport write is issued.
WriteToTransport ==
    /\ wcall.pc = "registry"
    /\ wcall' = [wcall EXCEPT
                    !.pc = "transport",
                    !.tx = TransportWrite(wcall.args.data,
                                          wcall.args.with_response)]
    /\ UNCHANGED <<mvars, hvars, vcall, dcall>>

WriteNext ==
    \/ HandleWrite
    \/ ManagerWrite
    \/ WriteToTransport

WriteSpec == WriteInit /\ [][WriteNext]_vars

(***************************************************************************)
(* schemas.validate_mac_address                                            *)
(***************************************************************************)
\* Most groups in a MAC address argument.
MaxMacGroups == 7

LowerLetters ==
    <<"a", "b", "c", "d", "e", "f", "g", "h", "i", "j", "k", "l", "m",
      "n", "o", "p", "q", "r", "s", "t", "u", "v", "w", "x", "y", "z">>

UpperLetters ==
    <<"A", "B", "C", "D", "E", "F", "G", "H", "I", "J", "K", "L", "M",
      "N", "O", "P", "Q", "R", "S", "T", "U", "V", "W", "X", "Y", "Z">>

\* str.upper(), character by character.
UpperChar(c) ==
    IF \E i \in 1..26 : LowerLetters[i] = c
    THEN UpperLetters[CHOOSE i \in 1..26 : LowerLetters[i] = c]
    ELSE c

\* [0-9A-F]
HexDigits ==
    {"0", "1", "2", "3", "4", "5", "6", "7", "8", "9",
     "A", "B", "C", "D", "E", "F"}

\* v.upper().replace("-", ":")
Normalise(v) ==
    [i \in 1..Len(v) |->
        IF UpperChar(v[i]) = "-" THEN ":" ELSE UpperChar(v[i])]

\* re.match(r"^([0-9A-F]{2}:){5}[0-9A-F]{2}$", v): the groups from the
\* start of v, then $, which matches at the end of v and also before a
\* newline that ends v.
ReMatch(v) ==
    /\ Len(v) >= 17
    /\ \A g \in 0..5 :
          /\ v[3 * g + 1] \in HexDigits
          /\ v[3 * g + 2] \in HexDigits
          /\ g < 5 => v[3 * g + 3] = ":"
    /\ \/ Len(v) = 17
       \/ Len(v) = 18 /\ v[18] = "\n"

\* validate_mac_address(cls, v): the normalised value, or ValueError.
ValidateMac(v) ==
    IF ReMatch(Normalise(v))
    THEN [ok |-> TRUE, value |-> Normalise(v)]
    ELSE [ok |-> FALSE, value |-> <<>>]

\* The groups, separators and endings the arguments are made of.
MacGroupChoices == {<<"a", "a">>, <<"1", "F">>, <<"z", "z">>}

MacSeparators == {":", "-", "."}

MacEndings == {<<>>, <<"\n">>, <<"0">>}

\* The sequences of n groups joined by sep.
RECURSIVE MacJoin(_, _)
MacJoin(n, sep) ==
    IF n = 1 THEN MacGroupChoices
    ELSE {q \o <<sep>> \o g : q \in MacJoin(n - 1, sep), g \in MacGroupChoices}

\* The arguments of the validator: five to m groups.
MacArguments(m) ==
    UNION {{q \o e : q \in MacJoin(n, sep), e \in MacEndings} :
              n \in 5..m, sep \in MacSeparators}

ValidatorInit ==
    /\ ProgramInit
    /\ wcall = NoCall
    /\ vcall \in {[pc |-> "call", v |-> a, res |-> [ok |-> FALSE, value |-> <<>>]] :
                    a \in MacArguments(MaxMacGroups)}
    /\ dcall = NoCall

\* The validator runs on the mac_address field of a model.
ValidateMacAddress ==
    /\ vcall.pc = "call"
    /\ vcall' = [vcall EXCEPT !.pc = "done", !.res = ValidateMac(vcall.v)]
    /\ UNCHANGED <<mvars, hvars, wcall, dcall>>

ValidatorNext == ValidateMacAddress

ValidatorSpec == ValidatorInit /\ [][ValidatorNext]_vars

(***************************************************************************)
(* Discovery: the merge of the sightings and handle_discover               *)
(***************************************************************************)
\* Most sightings the sources report during one discovery.
MaxSightings == 3

\* The proxies that report sightings, and the signal strengths they report.
Proxies == {"proxy1", "proxy2"}

RssiValues == {-70, -60, -45}

\* DiscoveredDevice(mac_address, rssi, best_proxy)
DiscoveredDevice(mac, rssi, proxy) ==
    [mac_address |-> mac, rssi |-> rssi, best_proxy |-> proxy]

\* Mutant: the latest sighting of a device replaces the entry.
MergeSighting_keepLast(devices, d) ==
    IF \E i \in 1..Len(devices) : devices[i].mac_address = d.mac_address
    THEN [i \in 1..Len(devices) |->
             IF devices[i].mac_address = d.mac_address THEN d ELSE devices[i]]
    ELSE Append(devices, d)

\* The merge by MAC address: a sighting of a device not yet listed adds an
\* entry; a stronger sighting of a listed device replaces its entry.
MergeSighting(devices, d) ==
    IF \E i \in 1..Len(devices) : devices[i].mac_address = d.mac_address
    THEN [i \in 1..Len(devices) |->
             IF devices[i].mac_address = d.mac_address
                  /\ d.rssi > devices[i].rssi
             THEN d ELSE devices[i]]
    ELSE Append(devices, d)

\* BLEDiscoveredMessage(devices=devices)
DiscoveredEvent(devices) == [type |-> "discovered", devices |-> devices]

DiscoveryInit ==
    /\ ProgramInit
    /\ wcall = NoCall
    /\ vcall = NoCall
    /\ dcall = [pc |-> "scan", seen |-> <<>>, devices |-> <<>>,
                event |-> DiscoveredEvent(<<>>)]

\* A proxy reports a device while discover_devices collects.
Sighting(mac, rssi, proxy) ==
    /\ dcall.pc = "scan"
    /\ Len(dcall.seen) < MaxSightings
    /\ LET d == DiscoveredDevice(mac, rssi, proxy) IN
       dcall' = [dcall EXCEPT !.seen = Append(@, d),
                              !.devices = MergeSighting(@, d)]
    /\ UNCHANGED <<mvars, hvars, wcall, vcall>>

\* handle_discover: discover_devices returns its list and the discovered
\* event carries it.
HandleDiscover ==
    /\ dcall.pc = "scan"
    /\ dcall' = [dcall EXCEPT !.pc = "sent",
                              !.event = DiscoveredEvent(dcall.devices)]
    /\ UNCHANGED <<mvars, hvars, wcall, vcall>>

DiscoveryNext ==
    \/ \E mac \in Addresses, rssi \in RssiValues, proxy \in Proxies :
          Sighting(mac, rssi, proxy)
    \/ HandleDiscover

DiscoverySpec == DiscoveryInit /\ [][DiscoveryNext]_vars

(***************************************************************************)
(* Properties of the ConnectionManager                                     *)
(***************************************************************************)
\* Number of entries the registry holds for client_id k.
EntriesOf(conns, k) ==
    Cardinality({i \in 1..Len(conns) : conns[i].client_id = k})

\* The entry of k still carries a notification callback.
HasCallback(conns, k) ==
    HasKey(conns, k) /\ DictGet(conns, k).notification_callback # None

\* C1: a session never has two registered connections; connect_device
\* issues the transport connect only when the session has no entry left,
\* and when one existed at the call the transport disconnect was issued
\* first; a connect that returns leaves exactly one entry, the new device.
C1_OneConnectionPerSession ==
    /\ \A s \in Sessions : EntriesOf(connections, s) <= 1
    /\ \A s \in Sessions :
          (task[s].op = "connect" /\ task[s].tconn)
             => /\ ~HasKey(connections, s)
                /\ task[s].had => task[s].tdisc
    /\ (ret.op = "connect" /\ ret.res = "ok")
          => /\ EntriesOf(connections, ret.cid) = 1
             /\ DictGet(connections, ret.cid).mac_address = ret.mac
             /\ ret.tconn /\ (ret.had => ret.tdisc)

\* C1 witness: a second connect, to another device, has just returned and
\* its connection is the one registered.
C1_Witness ==
    /\ ret.op = "connect" /\ ret.res = "ok" /\ ret.had
    /\ ret.old # ret.mac
    /\ DictGet(connections, ret.cid).mac_address = ret.mac

\* C2: a connect_device that failed leaves no entry for the session and
\* no device connection that the call opened at the transport.
C2_FailedConnectLeaksNothing ==
    (ret.op = "connect" /\ ret.res # "ok")
       => /\ ~HasKey(connections, ret.cid)
          /\ ~(ret.opened /\ Upper(ret.mac) \in tlive[ret.cid])

\* C5: write_characteristic for a session without an entry ends with the
\* not-connected ValueError and issues no transport write.
C5_WriteNeedsConnection ==
    /\ (ret.op = "write" /\ ~ret.had)
          => ret.res = "ValueError: No active connection" /\ ~ret.twrite
    /\ \A s \in Sessions :
          (task[s].op = "write" /\ task[s].twrite) => task[s].had

\* C5 witness: a write on a session that connected and disconnected was
\* refused.
C5_Witness ==
    /\ ret.op = "write" /\ ~ret.had /\ ~ret.twrite
    /\ ret.res = "ValueError: No active connection"
    /\ \E i \in 1..Len(tsubs) : tsubs[i].cid = ret.cid
    /\ ~HasKey(connections, ret.cid)

\* C6: disconnect_device without an entry returns normally and issues no
\* transport call; with an entry, the session has no entry when the call
\* ends, and a transport disconnect that raised is not raised to the caller.
C6_DisconnectAlwaysRemoves ==
    /\ (ret.op = "disconnect" /\ ~ret.had)
          => ret.res = "ok" /\ ~ret.tdisc /\ ~HasKey(connections, ret.cid)
    /\ (ret.op = "disconnect" /\ ret.had)
          => /\ ~HasKey(connections, ret.cid)
             /\ ret.res \in {"ok", "KeyError"}
             /\ (ret.tout = "err" /\ ret.res # "KeyError") => ret.res = "ok"

\* C6 witness: a disconnect whose transport call raised has returned
\* normally.
C6_Witness ==
    ret.op = "disconnect" /\ ret.had /\ ret.tout = "err" /\ ret.res = "ok"

\* C7: when disconnect_all returns, the registry is empty.
C7_DisconnectAllEmpties ==
    (ret.op = "disconnect_all" /\ ret.res = "ok") => connections = <<>>

\* C8: overlapping disconnects of one entry are safe: neither the
\* session's disconnect_device nor disconnect_all raises.
C8_OverlappingDisconnectsSafe ==
    ret.op \in {"disconnect", "disconnect_all"} => ret.res # "KeyError"

\* C9: a connect whose transport answer comes after the connection timeout
\* ends with the connection-timeout error and stores nothing; no other
\* failure ends with that error.
C9_TimeoutDistinguished ==
    /\ (ret.op = "connect" /\ ret.lat > esphome_connection_timeout)
          => /\ ret.res = "RuntimeError: Connection timeout"
             /\ ~HasKey(connections, ret.cid)
    /\ (ret.op = "connect" /\ ret.res = "RuntimeError: Connection timeout")
          => ret.lat >= esphome_connection_timeout
    /\ (ret.op = "connect" /\ ret.res # "ok" /\ ret.res # "KeyError"
          /\ ret.lat < esphome_connection_timeout)
          => ret.res = "RuntimeError: Connection failed"

\* C9 witness: a connect timed out.
C9_Witness ==
    /\ ret.op = "connect" /\ ret.lat > esphome_connection_timeout
    /\ ret.res = "RuntimeError: Connection timeout"

\* C10: a notification invokes the callback of a session only while the
\* session's entry still carries the callback: after disconnect_device
\* cleared it, notifications are dropped.
C10_NoCallbackAfterDisconnect ==
    \A s \in notif.invoked : HasCallback(connections, s)

\* C15: the notifications of a connection reach the callback of the
\* session in the order the transport produced them and once each: one
\* notification never invokes the callback of a session twice.
C15_NotificationsOnceInOrder ==
    \A s \in Sessions : notif.calls[s] <= 1

\* The registry entries stored under client_id k.
Entries(conns, k) == SelectSeq(conns, LAMBDA e : e.client_id = k)

\* The step is one of the connect_device, disconnect_device or
\* write_characteristic call of session a.
StepOf(a) ==
    \/ task'[a] # task[a]
    \/ /\ ret'.pc = "done" /\ ret'.cid = a
       /\ ret'.op \in {"connect", "disconnect", "write"}

WriteStepOf(a) ==
    /\ StepOf(a)
    /\ task[a].op = "write" \/ task'[a].op = "write" \/ ret'.op = "write"

\* C21: the steps of a write_characteristic call leave the registry as it
\* is, whether the transport write returns or raises; a call whose
\* transport write raised ends with the write-failed RuntimeError; and a
\* write on a session that has an entry (so also after a failed write) is
\* dispatched to the transport.
C21_FailedWriteKeepsRegistry ==
    [][\A a \in Sessions :
          WriteStepOf(a)
             => /\ connections' = connections
                /\ (ret'.pc = "done" /\ ret'.wout = "err")
                      => ret'.res = "RuntimeError: Write failed"
                /\ (task[a].pc = "idle" /\ HasKey(connections, a))
                      => task'[a].pc = "write_wait" /\ task'[a].twrite]_vars

\* C21 witness: a write whose transport write raised has ended with the
\* write-failed error and the entry of the session is still there.
C21_Witness ==
    /\ ret.op = "write" /\ ret.wout = "err"
    /\ ret.res = "RuntimeError: Write failed"
    /\ HasKey(connections, ret.cid)
    /\ DictGet(connections, ret.cid) =
          ActiveConnection(ret.cid, ret.mac, Callable)

\* C22: a write on a session that has an entry issues the transport write
\* whatever its characteristic is, and ends as the transport write ends;
\* the warning is logged exactly when the characteristic differs, case
\* ignored, from the one recorded for the connection.
C22_MismatchOnlyWarns ==
    /\ \A s \in Sessions :
          task[s].op = "write"
             => /\ task[s].twrite
                /\ task[s].warned
                      <=> UpperUuid(task[s].uuid) # UpperUuid(WriteCharUuid)
    /\ (ret.op = "write" /\ ret.had)
          => /\ ret.twrite
             /\ ret.res = "ok" <=> ret.wout = "ok"
             /\ ret.res = "RuntimeError: Write failed" <=> ret.wout = "err"
             /\ ret.warned <=> UpperUuid(ret.uuid) # UpperUuid(WriteCharUuid)

\* C22 witness: a write to another characteristic than the recorded one
\* was issued to the transport, logged the warning and succeeded.
C22_Witness ==
    /\ ret.op = "write" /\ ret.uuid = "FFE2" /\ ret.warned
    /\ ret.twrite /\ ret.wout = "ok" /\ ret.res = "ok"

\* C23: a notification invokes the callback of a session only when it
\* comes from the device of the session's connection, case ignored, and
\* an exception of the callback does not leave on_notification.
C23_RoutedToOwnDeviceOnly ==
    /\ \A s \in notif.invoked :
          HasKey(connections, s)
             => Upper(notif.addr) = Upper(DictGet(connections, s).mac_address)
    /\ ~notif.propagated

\* C24: every stored ActiveConnection holds its MAC address in canonical,
\* upper-case form.
C24_StoredMacCanonical ==
    \A i \in 1..Len(connections) :
       connections[i].mac_address = Upper(connections[i].mac_address)

(***************************************************************************)
(* Properties of the session handler                                       *)
(***************************************************************************)
\* C3: a session that is Closed ends with running = False and handle() has
\* not raised, and if it still held a connection when it left the loop the
\* disconnect was attempted, whether that disconnect succeeded or raised.
C3_CleanupOnClose ==
    /\ hpc = "closed"
          => /\ ~running
             /\ ~hlog.raised
             /\ hlog.held => hlog.tried
    /\ hpc = "cleanup" => hlog.held /\ hlog.tried /\ ~hlog.raised

\* C3 witness: the session closed holding a connection, its cleanup
\* disconnect raised, and handle() returned normally.
C3_Witness ==
    /\ hpc = "closed" /\ hlog.held /\ hlog.tried /\ hlog.out = "err"
    /\ ~hlog.raised /\ ~running

\* C4, as stated: after a frame that does not decode, exactly one error
\* event has been sent, no manager operation was invoked and the session
\* is Ready for the next frame.
C4_BadFrameErrorAndReady ==
    (frame.kind \in BadFrames /\ hpc # "send")
       => /\ frame.sent = <<"error">>
          /\ frame.mgr = 0
          /\ hpc = "recv" /\ running

\* C4, amended: for a frame that does not decode, exactly one event, an
\* error, is handed to the socket and no manager operation is invoked; if
\* the socket takes the event and no notification send of the session
\* has failed, the session is Ready for the next frame, and if the send
\* fails the session leaves the loop.
C4_BadFrameOneError ==
    frame.kind \in BadFrames
       => /\ frame.tried = <<"error">>
          /\ frame.mgr = 0
          /\ hpc \in {"send", "recv", "cleanup", "closed"}
          /\ hpc = "send" => pending.event = "error" /\ frame.sent = <<>>
          /\ (hpc # "send" /\ frame.sent # <<>>)
                => /\ frame.sent = <<"error">>
                   /\ ~hlog.nfail => hpc = "recv" /\ running
          /\ (hpc # "send" /\ frame.sent = <<>>)
                => hpc \in {"cleanup", "closed"} /\ ~running

\* C4 witness: a JSON value that is not an object was answered with one
\* error event and the session waits for the next frame.
C4_Witness ==
    /\ frame.kind = "nonobject" /\ frame.sent = <<"error">>
    /\ frame.mgr = 0 /\ hpc = "recv" /\ running

\* The response event of a command whose manager operation succeeded.
SuccessEvent(op) ==
    CASE op = "connect"    -> "connected"
      [] op = "disconnect" -> "disconnected"
      [] op = "discover"   -> "discovered"
      [] OTHER             -> "status"

\* C11: for a command, the response path hands exactly one event to the
\* socket once the manager operation has ended, none before: the response
\* of the command when the operation succeeded, an error when it raised
\* (or when the payload of a write does not decode); the event is written
\* unless the socket refuses it, and then the session stops running.
C11_OneDirectResponse ==
    frame.kind \in Commands \cup BadPayloads
       => /\ hpc = "mgr" => frame.tried = <<>> /\ frame.sent = <<>>
          /\ hpc # "mgr"
                => /\ Len(frame.tried) = 1
                   /\ frame.out = "ok"
                         => frame.tried[1] = SuccessEvent(frame.kind)
                   /\ frame.out # "ok" => frame.tried[1] = "error"
                   /\ frame.sent \in {<<>>, frame.tried}
          /\ hpc = "send" => frame.sent = <<>>
          /\ (hpc \notin {"mgr", "send"} /\ frame.sent = <<>>) => ~running
          /\ frame.kind \in BadPayloads => frame.mgr = 0

\* C11 witness: a connect command was answered with one connected event
\* and the session waits for the next frame.
C11_Witness ==
    /\ frame.kind = "connect" /\ frame.out = "ok"
    /\ frame.sent = <<"connected">> /\ hpc = "recv" /\ running

\* C12: when the backend is unavailable at the start of the session, one
\* error event is handed to the socket, no frame is received, no manager
\* operation and no disconnect is invoked, and the handler ends Closed
\* with running = False.
C12_UnavailableEndsClosed ==
    (hpc # "init" /\ ~bleManager.available)
       => /\ hpc \in {"send", "closed"}
          /\ frame.kind = "-" /\ frame.mgr = 0
          /\ frame.tried = <<"error">>
          /\ frame.sent \in {<<>>, <<"error">>}
          /\ ~hlog.tried /\ ~bleManager.is_connected /\ nsend = "idle"
          /\ hpc = "send" => pending = [event |-> "error", then |-> "return"]
          /\ hpc = "closed" => ~running

\* C12 witness: the session of an unavailable backend is Closed after its
\* error event was written.
C12_Witness ==
    /\ hpc = "closed" /\ ~bleManager.available /\ ~running
    /\ frame.sent = <<"error">> /\ frame.kind = "-"

\* C13: after a send of an outbound event failed (self.running is False),
\* no further frame is dispatched to the manager.
C13_SendFailureStopsDispatch ==
    ~(frame.late /\ frame.mgr > 0)

\* C14: a send of the response path and a send of the notification
\* callback are never in progress at the same time.
C14_SingleWriter ==
    ~(hpc = "send" /\ nsend = "sending")

\* C20: when the socket is closed while a connect is pending in the
\* manager, the session eventually is Closed with no connection left for
\* it and without the result of the connect having been written.
C20_PendingConnectTornDown ==
    (hpc = "mgr" /\ frame.kind = "connect" /\ sock = "closed")
       ~> (hpc = "closed" /\ ~running /\ ~bleManager.is_connected
              /\ frame.sent = <<>>)

\* C20 witness: the connect that was pending when the socket closed
\* succeeded, its event was not written, and the cleanup disconnect ran.
C20_Witness ==
    /\ hpc = "closed" /\ frame.kind = "connect" /\ frame.out = "ok"
    /\ sock = "closed" /\ hlog.closed_at = "mgr" /\ frame.sent = <<>>
    /\ hlog.held /\ hlog.tried /\ ~bleManager.is_connected

(***************************************************************************)
(* Properties of the write payload                                         *)
(***************************************************************************)
\* Pad characters of a data field.
Pads(data) == Cardinality({i \in 1..Len(data) : data[i] = "="})

\* The bits of the last character before the padding that no byte takes
\* are zero.
Canonical(data) ==
    CASE Pads(data) = 2 -> B64Index(data[Len(data) - 2]) % 16 = 0
      [] Pads(data) = 1 -> B64Index(data[Len(data) - 1]) % 4 = 0
      [] OTHER          -> TRUE

\* C16: the bytes handed to the transport write are the base64 decoding
\* of the data field of the frame (three bytes per group less one per pad
\* character, whose encoding is the data field again, up to the unused
\* bits of its last character; "AQID" gives 1, 2, 3), and the response
\* flag of the transport write is withResponse.
C16_WritePayloadExact ==
    wcall.pc = "transport"
       => LET d == wcall.data
              t == wcall.tx.data
          IN  /\ wcall.tx.response = wcall.withResponse
              /\ Len(t) = 3 * (Len(d) \div 4) - Pads(d)
              /\ \A i \in 1..Len(t) : t[i] \in 0..255
              /\ Len(B64Encode(t)) = Len(d)
              /\ \A i \in 1..Len(d) :
                    (Canonical(d) \/ i # Len(d) - Pads(d))
                       => B64Encode(t)[i] = d[i]
              /\ d = <<"A", "Q", "I", "D">> => t = <<1, 2, 3>>

\* C16 witness: the frame with data "AQID" and withResponse true reached
\* the transport as the bytes 1, 2, 3 with response true.
C16_Witness ==
    /\ wcall.pc = "transport"
    /\ wcall.data = <<"A", "Q", "I", "D">> /\ wcall.withResponse
    /\ wcall.tx.data = <<1, 2, 3>> /\ wcall.tx.response

(***************************************************************************)
(* Properties of the MAC validator                                         *)
(***************************************************************************)
\* Six groups of two hexadecimal digits, separated by colons, and nothing
\* else.
IsCanonicalMac(v) ==
    /\ Len(v) = 17
    /\ \A i \in 1..17 : IF i % 3 = 0 THEN v[i] = ":" ELSE v[i] \in HexDigits

\* C17: the validator accepts its argument exactly when the argument,
\* upper-cased and with its hyphens replaced by colons, is six groups of
\* two hexadecimal digits separated by colons; it then returns that
\* value, and the value is accepted unchanged when validated again.
C17_MacCanonicalOrRejected ==
    vcall.pc = "done"
       => /\ vcall.res.ok <=> IsCanonicalMac(Normalise(vcall.v))
          /\ vcall.res.ok
                => /\ vcall.res.value = Normalise(vcall.v)
                   /\ ValidateMac(vcall.res.value) = vcall.res

(***************************************************************************)
(* Properties of the discovery                                             *)
(***************************************************************************)
\* The sightings of the device with address mac.
SightingsOf(seen, mac) ==
    {i \in 1..Len(seen) : seen[i].mac_address = mac}

\* C18: the devices of a discovered event hold one entry for every
\* device that was sighted and no second one; the entry carries the
\* highest RSSI any source reported for the device and names a source
\* that reported it.
C18_OneEntryPerMacBestRssi ==
    dcall.pc = "sent"
       => LET devs == dcall.event.devices
              seen == dcall.seen
          IN  \A mac \in Addresses :
                LET es == {i \in 1..Len(devs) : devs[i].mac_address = mac} IN
                /\ Cardinality(es) <= 1
                /\ Cardinality(es) = 1 <=> SightingsOf(seen, mac) # {}
                /\ \A i \in es :
                      /\ \A j \in SightingsOf(seen, mac) :
                            seen[j].rssi <= devs[i].rssi
                      /\ \E j \in SightingsOf(seen, mac) :
                            /\ seen[j].rssi = devs[i].rssi
                            /\ seen[j].best_proxy = devs[i].best_proxy

\* C18 witness: two proxies saw one device at -60 and at -45, and the
\* event holds one entry, with -45 and the second proxy.
C18_Witness ==
    /\ dcall.pc = "sent"
    /\ dcall.seen = <<DiscoveredDevice("AA", -60, "proxy1"),
                      DiscoveredDevice("AA", -45, "proxy2")>>
    /\ dcall.event.devices = <<DiscoveredDevice("AA", -45, "proxy2")>>

====
